---- MODULE Spec2Model ----
(***************************************************************************)
(* Monthly ledger and archival engine of Presupuesto Base Cero.            *)
(*                                                                         *)
(* The five IndexedDB object stores are the durable state.  Every async    *)
(* store function is an invocation that advances from one awaited          *)
(* database request to the next; requests of different invocations may     *)
(* interleave, except that an IndexedDB readwrite transaction is isolated  *)
(* and commits (or is dropped, on termination) as one unit.                *)
(*                                                                         *)
(* Strings of the form YYYY-MM are tuples <<year, d1, d2>> (the year and   *)
(* the two characters of the month); YYYY-MM-DD adds the day as a fourth   *)
(* element.  JS arrays of records read through an index are functions      *)
(* from record id to the record's fields.  createdAt / updatedAt and the   *)
(* presentation fields (name, color, icon, description) are left out.      *)
(***************************************************************************)
EXTENDS Integers, Sequences, FiniteSets, TLC

\* ------------------------------------------------------------- bounds
\* calls made to the store in one run
MaxCalls == 4
\* calendar months that pass in one run
MaxTicks == 1
\* invocations in flight at once
MaxTasks == 2

\* --------------------------------------------------------- input sets
Tasks == 1..MaxTasks
\* amounts typed into the forms
Amounts == {10}
Incomes == {100}
UpdatedAmounts == {30}
BudgetLimits == {20}
UpdatedLimits == {40}

NoMonth == <<>>
Empty == <<>>

VARIABLES
  settings,       \* store 'settings', record 'main'
  fixedExpenses,  \* store 'fixedExpenses': id -> record
  categories,     \* store 'categories': id -> record
  expenses,       \* store 'expenses': id -> record
  archives,       \* store 'monthlyArchives': month -> record
  nextId,         \* ids handed out so far, per store
  clock,          \* the real-world date, as new Date() returns it
  ticks,          \* how often the clock has advanced
  calls,          \* how many calls were made
  tx,             \* the open readwrite transaction, if any
  tasks           \* the invocations in flight

durable == <<settings, fixedExpenses, categories, expenses, archives>>
vars == <<settings, fixedExpenses, categories, expenses, archives, nextId, clock, ticks, calls, tx, tasks>>

\* ------------------------------------------------------ pure helpers
\* String(n).padStart(2, '0') for 1 <= n <= 99
PadStart2(n) == <<n \div 10, n % 10>>

\* `${year}-${mm}`
MonthKey(year, mm) == <<year>> \o mm

\* the month part of a key, as Number() reads it
MonthNum(key) == key[2] * 10 + key[3]

getCurrentMonth == MonthKey(clock.year, PadStart2(clock.month + 1))

\* date.split('-') -> [year, month, day]; `${year}-${month}`
MonthOfDate(date) == MonthKey(date[1], <<date[2], date[3]>>)

\* now.split('T')[0] of new Date().toISOString()
Today == MonthKey(clock.year, PadStart2(clock.month + 1)) \o <<clock.day>>

nextMonthOf(targetMonth) ==
  LET year == targetMonth[1]
      monthNum == MonthNum(targetMonth)
  IN IF monthNum = 12 THEN MonthKey(year + 1, <<0, 1>>)
     ELSE MonthKey(year, PadStart2(monthNum + 1))

RECURSIVE SumOver(_, _)
\* array.reduce((sum, e) => sum + e[field], 0) as SumOver(f, field)
SumOver(f, field) ==
  IF DOMAIN f = {} THEN 0
  ELSE LET k == CHOOSE x \in DOMAIN f : TRUE
       IN f[k][field] + SumOver([x \in DOMAIN f \ {k} |-> f[x]], field)

Restrict(f, S) == [x \in S |-> f[x]]
Without(f, S) == [x \in DOMAIN f \ S |-> f[x]]
With(f, k, v) == [x \in DOMAIN f \cup {k} |-> IF x = k THEN v ELSE f[x]]

\* db.getAllFromIndex(STORES.EXPENSES, 'month', targetMonth)
ByMonth(exps, targetMonth) ==
  Restrict(exps, {i \in DOMAIN exps : exps[i].month = targetMonth})

\* index('categoryId') restricted to IDBKeyRange.only(id)
ByCategory(exps, id) ==
  Restrict(exps, {i \in DOMAIN exps : exps[i].categoryId = id})


\* ------------------------------------------------------- input sets
\* the months and dates a caller passes (YYYY-MM, YYYY-MM-DD)
MonthKeys == {<<2024, 1, 2>>, <<2025, 0, 1>>}
Dates == {m \o <<15>> : m \in MonthKeys}
NoDate == <<>>

\* ------------------------------------------------- store primitives
NoTx == [owner |-> 0, stores |-> {}]
Idle == [pc |-> "idle"]

\* no open readwrite transaction has `store` in its scope
Free(store) == store \notin tx.stores

AllIdle == \A t \in Tasks : tasks[t] = Idle

\* db.transaction(stores, 'readwrite'): the transaction works on its own
\* view of the stores until tx.done
BeginTx(t, stores) ==
  [owner |-> t, stores |-> stores,
   settings |-> settings, fixedExpenses |-> fixedExpenses,
   categories |-> categories, expenses |-> expenses, archives |-> archives]

\* tx.done: the stores in scope take the transaction's view, all at once
CommitTx ==
  /\ settings' = IF "settings" \in tx.stores THEN tx.settings ELSE settings
  /\ fixedExpenses' = IF "fixedExpenses" \in tx.stores THEN tx.fixedExpenses ELSE fixedExpenses
  /\ categories' = IF "categories" \in tx.stores THEN tx.categories ELSE categories
  /\ expenses' = IF "expenses" \in tx.stores THEN tx.expenses ELSE expenses
  /\ archives' = IF "monthlyArchives" \in tx.stores THEN tx.archives ELSE archives
  /\ tx' = NoTx

\* {...current, ...updates}
Merge(current, updates) ==
  [f \in DOMAIN current \cup DOMAIN updates |->
     IF f \in DOMAIN updates THEN updates[f] ELSE current[f]]

SetTask(t, rec) == tasks' = [tasks EXCEPT ![t] = rec]

\* ------------------------------------------------------------ Init
\* initializeSettings: the store after the first getDB()
Init ==
  /\ clock = [year |-> 2024, month |-> 11, day |-> 15]
  /\ ticks = 0
  /\ calls = 0
  /\ settings = [id |-> "main", monthlyIncome |-> 0, currency |-> "Q",
                 currentMonth |-> <<2024, 1, 2>>]
  /\ fixedExpenses = Empty
  /\ categories = Empty
  /\ expenses = Empty
  /\ archives = Empty
  /\ nextId = [fixedExpenses |-> 1, categories |-> 1, expenses |-> 1]
  /\ tx = NoTx
  /\ tasks = [t \in Tasks |-> Idle]

\* ------------------------------------------------ environment steps
\* a calendar month passes
Tick ==
  /\ ticks < MaxTicks
  /\ ticks' = ticks + 1
  /\ clock' = IF clock.month = 11
              THEN [clock EXCEPT !.year = clock.year + 1, !.month = 0]
              ELSE [clock EXCEPT !.month = clock.month + 1]
  /\ UNCHANGED <<durable, nextId, tx, tasks>>

\* the page is closed or the process dies: every invocation is gone, an
\* uncommitted transaction is dropped, the committed stores remain
Crash ==
  /\ ~AllIdle
  /\ tasks' = [t \in Tasks |-> Idle]
  /\ tx' = NoTx
  /\ UNCHANGED <<durable, nextId, clock, ticks>>

\* the caller takes the result (or the error) of a finished invocation
Return(t) ==
  /\ tasks[t].pc \in {"done", "failed"}
  /\ SetTask(t, Idle)
  /\ UNCHANGED <<durable, nextId, clock, ticks, tx>>

\* --------------------------------------------- single-request writes
createFixedExpense(amount) ==
  /\ Free("fixedExpenses")
  /\ fixedExpenses' = With(fixedExpenses, nextId.fixedExpenses, [amount |-> amount])
  /\ nextId' = [nextId EXCEPT !.fixedExpenses = @ + 1]
  /\ UNCHANGED <<settings, categories, expenses, archives, clock, ticks, tx, tasks>>

deleteFixedExpense(id) ==
  /\ Free("fixedExpenses")
  /\ fixedExpenses' = Without(fixedExpenses, {id})
  /\ UNCHANGED <<settings, categories, expenses, archives, nextId, clock, ticks, tx, tasks>>

createCategory(budgetLimit) ==
  /\ Free("categories")
  /\ categories' = With(categories, nextId.categories, [budgetLimit |-> budgetLimit])
  /\ nextId' = [nextId EXCEPT !.categories = @ + 1]
  /\ UNCHANGED <<settings, fixedExpenses, expenses, archives, clock, ticks, tx, tasks>>

createExpense(categoryId, amount, date) ==
  LET expenseDate == IF date = NoDate THEN Today ELSE date
      expense == [categoryId |-> categoryId, amount |-> amount,
                  date |-> expenseDate, month |-> MonthOfDate(expenseDate)]
  IN /\ Free("expenses")
     /\ expenses' = With(expenses, nextId.expenses, expense)
     /\ nextId' = [nextId EXCEPT !.expenses = @ + 1]
     /\ UNCHANGED <<settings, fixedExpenses, categories, archives, clock, ticks, tx, tasks>>

deleteExpense(id) ==
  /\ Free("expenses")
  /\ expenses' = Without(expenses, {id})
  /\ UNCHANGED <<settings, fixedExpenses, categories, archives, nextId, clock, ticks, tx, tasks>>

deleteArchive(month) ==
  /\ Free("monthlyArchives")
  /\ archives' = Without(archives, {month})
  /\ UNCHANGED <<settings, fixedExpenses, categories, expenses, nextId, clock, ticks, tx, tasks>>

\* ------------------------------------------------------ updateSettings
\* getSettings(), then the merge
UpdateSettingsRead(op, updates) ==
  [pc |-> "us_write", op |-> op, patch |-> updates,
   updated |-> Merge(settings, updates)]

updateSettings(t, updates) ==
  /\ tasks[t] = Idle
  /\ Free("settings")
  /\ SetTask(t, UpdateSettingsRead("updateSettings", updates))
  /\ UNCHANGED <<durable, nextId, clock, ticks, tx>>

\* db.put(STORES.SETTINGS, updated): the key path 'id' must be present
UpdateSettingsWrite(t) ==
  /\ tasks[t].pc = "us_write"
  /\ Free("settings")
  /\ IF "id" \in DOMAIN tasks[t].updated
     THEN /\ settings' = tasks[t].updated
          /\ SetTask(t, [tasks[t] EXCEPT !.pc = "done"])
     ELSE /\ settings' = settings
          /\ SetTask(t, [tasks[t] EXCEPT !.pc = "failed"])
  /\ UNCHANGED <<fixedExpenses, categories, expenses, archives, nextId, clock, ticks, tx>>

\* ------------------------------------------------------- updateExpense
\* a merge in which the patch is spread after the computed month
UpdatedExpensePatchLast(current, updates) ==
  LET month == IF "date" \in DOMAIN updates
               THEN MonthOfDate(updates.date) ELSE current.month
  IN Merge([current EXCEPT !.month = month], updates)

\* the record updateExpense builds from the one it read
UpdatedExpense(current, updates) ==
  LET month == IF "date" \in DOMAIN updates
               THEN MonthOfDate(updates.date) ELSE current.month
  IN [Merge(current, updates) EXCEPT !.month = month]

updateExpense(t, id, updates) ==
  /\ tasks[t] = Idle
  /\ Free("expenses")
  /\ IF id \in DOMAIN expenses
     THEN SetTask(t, [pc |-> "ue_write", op |-> "updateExpense", id |-> id,
                      updates |-> updates,
                      updated |-> UpdatedExpense(expenses[id], updates)])
     ELSE SetTask(t, [pc |-> "failed", op |-> "updateExpense", id |-> id,
                      updates |-> updates])
  /\ UNCHANGED <<durable, nextId, clock, ticks, tx>>

UpdateExpenseWrite(t) ==
  /\ tasks[t].pc = "ue_write"
  /\ Free("expenses")
  /\ expenses' = With(expenses, tasks[t].id, tasks[t].updated)
  /\ SetTask(t, [tasks[t] EXCEPT !.pc = "done"])
  /\ UNCHANGED <<settings, fixedExpenses, categories, archives, nextId, clock, ticks, tx>>

\* a cascade that reaches only the expenses of the calendar month
deleteCategoryCurrentMonth(t, id) ==
  /\ tasks[t] = Idle
  /\ tx.owner = 0
  /\ LET begun == BeginTx(t, {"categories", "expenses"})
         matches == DOMAIN ByMonth(ByCategory(begun.expenses, id), getCurrentMonth)
     IN /\ tx' = [begun EXCEPT !.expenses = Without(@, matches)]
        /\ SetTask(t, [pc |-> "dc_delete", op |-> "deleteCategory", id |-> id,
                       purged |-> Restrict(begun.expenses, matches),
                       atCall |-> [exists |-> id \in DOMAIN categories]])
  /\ UNCHANGED <<durable, nextId, clock, ticks>>

\* ------------------------------------------------------ deleteCategory
\* the transaction is opened and the cursor over index 'categoryId'
\* deletes every match; atCall and purged keep, for the properties, whether
\* the category existed and what the cursor deleted
deleteCategory(t, id) ==
  /\ tasks[t] = Idle
  /\ tx.owner = 0
  /\ LET begun == BeginTx(t, {"categories", "expenses"})
         matches == DOMAIN ByCategory(begun.expenses, id)
     IN /\ tx' = [begun EXCEPT !.expenses = Without(@, matches)]
        /\ SetTask(t, [pc |-> "dc_delete", op |-> "deleteCategory", id |-> id,
                       purged |-> Restrict(begun.expenses, matches),
                       atCall |-> [exists |-> id \in DOMAIN categories]])
  /\ UNCHANGED <<durable, nextId, clock, ticks>>

\* tx.objectStore(STORES.CATEGORIES).delete(id)
DeleteCategoryDelete(t) ==
  /\ tasks[t].pc = "dc_delete"
  /\ tx.owner = t
  /\ tx' = [tx EXCEPT !.categories = Without(@, {tasks[t].id})]
  /\ SetTask(t, [tasks[t] EXCEPT !.pc = "dc_commit"])
  /\ UNCHANGED <<durable, nextId, clock, ticks>>

\* await tx.done
DeleteCategoryCommit(t) ==
  /\ tasks[t].pc = "dc_commit"
  /\ tx.owner = t
  /\ CommitTx
  /\ SetTask(t, [tasks[t] EXCEPT !.pc = "done"])
  /\ UNCHANGED <<nextId, clock, ticks>>

\* ---------------------------------------------------------- closeMonth
\* settings?.monthlyIncome || 0 and settings?.currency || 'Q'
IncomeOf(s) == IF "monthlyIncome" \in DOMAIN s THEN s.monthlyIncome ELSE 0
CurrencyOf(s) == IF "currency" \in DOMAIN s THEN s.currency ELSE "Q"

\* cat.budgetLimit > 0 ? (spent / cat.budgetLimit) * 100 : 0
\* (the input sets keep the quotient integral)
SnapshotPercentage(spent, budgetLimit) ==
  IF budgetLimit > 0 THEN (spent * 100) \div budgetLimit ELSE 0

CategorySnapshots(cats, exps) ==
  [c \in DOMAIN cats |->
     LET spent == SumOver(ByCategory(exps, c), "amount")
     IN [budgetLimit |-> cats[c].budgetLimit,
         spent |-> spent,
         remaining |-> cats[c].budgetLimit - spent,
         percentage |-> SnapshotPercentage(spent, cats[c].budgetLimit)]]

\* an archive whose totalSaved leaves the fixed expenses out
BuildArchiveSavedOfSpent(targetMonth, s, fixed, cats, exps) ==
  LET totalFixedExpenses == SumOver(fixed, "amount")
      totalBudgeted == SumOver(cats, "budgetLimit")
      totalSpent == SumOver(exps, "amount")
      monthlyIncome == IncomeOf(s)
  IN [id |-> targetMonth,
      month |-> targetMonth,
      closedAt |-> clock,
      summary |-> [monthlyIncome |-> monthlyIncome,
                   totalFixedExpenses |-> totalFixedExpenses,
                   totalBudgeted |-> totalBudgeted,
                   totalSpent |-> totalSpent,
                   totalSaved |-> monthlyIncome - totalSpent,
                   currency |-> CurrencyOf(s)],
      fixedExpenses |-> fixed,
      categories |-> CategorySnapshots(cats, exps),
      expenses |-> exps]

\* the archive record closeMonth builds from what it gathered
BuildArchive(targetMonth, s, fixed, cats, exps) ==
  LET totalFixedExpenses == SumOver(fixed, "amount")
      totalBudgeted == SumOver(cats, "budgetLimit")
      totalSpent == SumOver(exps, "amount")
      monthlyIncome == IncomeOf(s)
  IN [id |-> targetMonth,
      month |-> targetMonth,
      closedAt |-> clock,
      summary |-> [monthlyIncome |-> monthlyIncome,
                   totalFixedExpenses |-> totalFixedExpenses,
                   totalBudgeted |-> totalBudgeted,
                   totalSpent |-> totalSpent,
                   totalSaved |-> monthlyIncome - totalFixedExpenses - totalSpent,
                   currency |-> CurrencyOf(s)],
      fixedExpenses |-> fixed,
      categories |-> CategorySnapshots(cats, exps),
      expenses |-> exps]

\* month || getCurrentMonth()
TargetMonth(month) == IF month = NoMonth THEN getCurrentMonth ELSE month

\* closeMonth without the check for an existing archive
closeMonthUnchecked(t, month) ==
  LET targetMonth == TargetMonth(month)
  IN /\ tasks[t] = Idle
     /\ Free("monthlyArchives")
     /\ SetTask(t, [pc |-> "cm_gather", op |-> "closeMonth", month |-> month,
                    targetMonth |-> targetMonth,
                    atCall |-> [settings |-> settings,
                                expenses |-> ByMonth(expenses, targetMonth)]])
     /\ UNCHANGED <<durable, nextId, clock, ticks, tx>>

\* the call: the target is fixed and getArchive(targetMonth) decides
\* whether the month was closed before.  atCall keeps, for the properties,
\* what the stores held when the call was made.
closeMonth(t, month) ==
  LET targetMonth == TargetMonth(month)
      call == [op |-> "closeMonth", month |-> month, targetMonth |-> targetMonth,
               atCall |-> [settings |-> settings,
                           expenses |-> ByMonth(expenses, targetMonth)]]
  IN /\ tasks[t] = Idle
     /\ Free("monthlyArchives")
     /\ IF targetMonth \in DOMAIN archives
        THEN SetTask(t, Merge(call, [pc |-> "failed"]))
        ELSE SetTask(t, Merge(call, [pc |-> "cm_gather"]))
     /\ UNCHANGED <<durable, nextId, clock, ticks, tx>>

\* Promise.all of the four reads, then the archive record is built
CloseMonthGather(t) ==
  /\ tasks[t].pc = "cm_gather"
  /\ Free("settings") /\ Free("fixedExpenses") /\ Free("categories") /\ Free("expenses")
  /\ SetTask(t, Merge(tasks[t],
       [pc |-> "cm_put",
        archive |-> BuildArchive(tasks[t].targetMonth, settings, fixedExpenses,
                                 categories, ByMonth(expenses, tasks[t].targetMonth))]))
  /\ UNCHANGED <<durable, nextId, clock, ticks, tx>>

\* the archive written by a request of its own, outside the transaction
\* that purges the expenses
CloseMonthPutDirect(t) ==
  /\ tasks[t].pc = "cm_put"
  /\ tx.owner = 0
  /\ archives' = With(archives, tasks[t].archive.id, tasks[t].archive)
  /\ tx' = BeginTx(t, {"expenses"})
  /\ SetTask(t, [tasks[t] EXCEPT !.pc = "cm_purge"])
  /\ UNCHANGED <<settings, fixedExpenses, categories, expenses, nextId, clock, ticks>>

\* the transaction is opened; objectStore(MONTHLY_ARCHIVES).put(archive)
CloseMonthPut(t) ==
  /\ tasks[t].pc = "cm_put"
  /\ tx.owner = 0
  /\ tx' = [BeginTx(t, {"monthlyArchives", "expenses"}) EXCEPT
              !.archives = With(@, tasks[t].archive.id, tasks[t].archive)]
  /\ SetTask(t, [tasks[t] EXCEPT !.pc = "cm_purge"])
  /\ UNCHANGED <<durable, nextId, clock, ticks>>

\* a purge keyed on the calendar month instead of the target
CloseMonthPurgeCurrent(t) ==
  /\ tasks[t].pc = "cm_purge"
  /\ tx.owner = t
  /\ tx' = [tx EXCEPT !.expenses = Without(@, DOMAIN ByMonth(@, getCurrentMonth))]
  /\ SetTask(t, [tasks[t] EXCEPT !.pc = "cm_commit"])
  /\ UNCHANGED <<durable, nextId, clock, ticks>>

\* a purge that empties the expenses store
CloseMonthPurgeAll(t) ==
  /\ tasks[t].pc = "cm_purge"
  /\ tx.owner = t
  /\ tx' = [tx EXCEPT !.expenses = Empty]
  /\ SetTask(t, [tasks[t] EXCEPT !.pc = "cm_commit"])
  /\ UNCHANGED <<durable, nextId, clock, ticks>>

\* the cursor over index 'month' deletes every match
CloseMonthPurge(t) ==
  /\ tasks[t].pc = "cm_purge"
  /\ tx.owner = t
  /\ tx' = [tx EXCEPT !.expenses = Without(@, DOMAIN ByMonth(@, tasks[t].targetMonth))]
  /\ SetTask(t, [tasks[t] EXCEPT !.pc = "cm_commit"])
  /\ UNCHANGED <<durable, nextId, clock, ticks>>

\* await tx.done
CloseMonthCommit(t) ==
  /\ tasks[t].pc = "cm_commit"
  /\ tx.owner = t
  /\ CommitTx
  /\ SetTask(t, [tasks[t] EXCEPT !.pc = "cm_after"])
  /\ UNCHANGED <<nextId, clock, ticks>>

\* if (targetMonth === getCurrentMonth()) updateSettings({currentMonth: nextMonth})
CloseMonthAfter(t) ==
  /\ tasks[t].pc = "cm_after"
  /\ IF tasks[t].targetMonth = getCurrentMonth
     THEN /\ Free("settings")
          /\ SetTask(t, Merge(tasks[t],
               UpdateSettingsRead("closeMonth",
                                  [currentMonth |-> nextMonthOf(tasks[t].targetMonth)])))
     ELSE SetTask(t, [tasks[t] EXCEPT !.pc = "done"])
  /\ UNCHANGED <<durable, nextId, clock, ticks, tx>>

\* ------------------------------------- updateFixedExpense, updateCategory
updateFixedExpense(t, id, updates) ==
  /\ tasks[t] = Idle
  /\ Free("fixedExpenses")
  /\ IF id \in DOMAIN fixedExpenses
     THEN SetTask(t, [pc |-> "uf_write", op |-> "updateFixedExpense", id |-> id,
                      updated |-> Merge(fixedExpenses[id], updates)])
     ELSE SetTask(t, [pc |-> "failed", op |-> "updateFixedExpense", id |-> id])
  /\ UNCHANGED <<durable, nextId, clock, ticks, tx>>

UpdateFixedExpenseWrite(t) ==
  /\ tasks[t].pc = "uf_write"
  /\ Free("fixedExpenses")
  /\ fixedExpenses' = With(fixedExpenses, tasks[t].id, tasks[t].updated)
  /\ SetTask(t, [tasks[t] EXCEPT !.pc = "done"])
  /\ UNCHANGED <<settings, categories, expenses, archives, nextId, clock, ticks, tx>>

\* a put that does not look for the record first
updateCategoryUpsert(t, id, updates) ==
  /\ tasks[t] = Idle
  /\ Free("categories")
  /\ SetTask(t, [pc |-> "uc_write", op |-> "updateCategory", id |-> id,
                 updated |-> IF id \in DOMAIN categories
                             THEN Merge(categories[id], updates) ELSE updates])
  /\ UNCHANGED <<durable, nextId, clock, ticks, tx>>

updateCategory(t, id, updates) ==
  /\ tasks[t] = Idle
  /\ Free("categories")
  /\ IF id \in DOMAIN categories
     THEN SetTask(t, [pc |-> "uc_write", op |-> "updateCategory", id |-> id,
                      updated |-> Merge(categories[id], updates)])
     ELSE SetTask(t, [pc |-> "failed", op |-> "updateCategory", id |-> id])
  /\ UNCHANGED <<durable, nextId, clock, ticks, tx>>

UpdateCategoryWrite(t) ==
  /\ tasks[t].pc = "uc_write"
  /\ Free("categories")
  /\ categories' = With(categories, tasks[t].id, tasks[t].updated)
  /\ SetTask(t, [tasks[t] EXCEPT !.pc = "done"])
  /\ UNCHANGED <<settings, fixedExpenses, expenses, archives, nextId, clock, ticks, tx>>

\* ---------------------------------------------------- initializeSettings
\* the store 'settings' without the record 'main'
NoSettings == [x \in {} |-> 0]

\* db.get(STORES.SETTINGS, 'main') finds a record
HasSettings == "id" \in DOMAIN settings

\* the page is loaded again: getDB opens the database and
\* initializeSettings finds no record 'main'
Reopen ==
  /\ AllIdle
  /\ ~HasSettings
  /\ settings' = [id |-> "main", monthlyIncome |-> 0, currency |-> "Q",
                  currentMonth |-> getCurrentMonth]
  /\ UNCHANGED <<fixedExpenses, categories, expenses, archives, nextId, clock, ticks, tx, tasks>>

\* ------------------------------------------------- exportData, importData
\* the record as the store returns it: the fields and the key path 'id'
WithId(rec, id) == Merge(rec, [id |-> id])
StripId(item) == [f \in DOMAIN item \ {"id"} |-> item[f]]

RECURSIVE getAll(_)
\* db.getAll / getAllFromIndex: the records of a store as an array
\* (every record the app writes carries createdAt, so the index holds all)
getAll(store) ==
  IF DOMAIN store = {} THEN <<>>
  ELSE LET k == CHOOSE x \in DOMAIN store : \A y \in DOMAIN store : x <= y
       IN <<WithId(store[k], k)>> \o getAll(Without(store, {k}))

\* the place of a YYYY-MM key in key order
KeyRank(key) == key[1] * 100 + MonthNum(key)

RECURSIVE getAllByMonth(_)
\* db.getAll(STORES.MONTHLY_ARCHIVES)
getAllByMonth(store) ==
  IF DOMAIN store = {} THEN <<>>
  ELSE LET k == CHOOSE x \in DOMAIN store :
                  \A y \in DOMAIN store : KeyRank(x) <= KeyRank(y)
       IN <<store[k]>> \o getAllByMonth(Without(store, {k}))

\* an export that takes the expenses of the calendar month only
ExportDocCurrentMonth(s, fixed, cats, exps, archs) ==
  LET data == [fixedExpenses |-> getAll(fixed),
               categories |-> getAll(cats),
               expenses |-> getAll(ByMonth(exps, getCurrentMonth)),
               monthlyArchives |-> getAllByMonth(archs)]
  IN [version |-> 3,
      data |-> IF "id" \in DOMAIN s THEN Merge(data, [settings |-> s]) ELSE data]

\* the document exportData returns; a missing settings record is undefined
\* and leaves no key
ExportDoc(s, fixed, cats, exps, archs) ==
  LET data == [fixedExpenses |-> getAll(fixed),
               categories |-> getAll(cats),
               expenses |-> getAll(exps),
               monthlyArchives |-> getAllByMonth(archs)]
  IN [version |-> 3,
      data |-> IF "id" \in DOMAIN s THEN Merge(data, [settings |-> s]) ELSE data]

exportData(t) ==
  /\ tasks[t] = Idle
  /\ Free("settings") /\ Free("fixedExpenses") /\ Free("categories")
  /\ Free("expenses") /\ Free("monthlyArchives")
  /\ SetTask(t, [pc |-> "done", op |-> "exportData",
                 doc |-> ExportDoc(settings, fixedExpenses, categories, expenses, archives)])
  /\ UNCHANGED <<durable, nextId, clock, ticks, tx>>

RECURSIVE PutAll(_, _)
\* for (const item of items) await store.put(item): a record without the
\* key path 'id' makes put throw, and the loop ends there
PutAll(store, items) ==
  IF items = <<>> THEN [store |-> store, ok |-> TRUE]
  ELSE IF "id" \notin DOMAIN Head(items) THEN [store |-> store, ok |-> FALSE]
  ELSE PutAll(With(store, Head(items).id, Head(items)), Tail(items))

\* items || []
ItemsOf(data, key) == IF key \in DOMAIN data THEN data[key] ELSE <<>>

StripSettings(data) == [f \in DOMAIN data \ {"settings"} |-> data[f]]

Stripped(store) == [k \in DOMAIN store |-> StripId(store[k])]

\* the view of the cleared stores after the puts of importData, in the
\* order of the code, up to the first put that throws
Imported(data) ==
  LET given == "settings" \in DOMAIN data
      sOk == ~given \/ "id" \in DOMAIN data.settings
      f == PutAll(Empty, ItemsOf(data, "fixedExpenses"))
      c == PutAll(Empty, ItemsOf(data, "categories"))
      e == PutAll(Empty, ItemsOf(data, "expenses"))
      a == PutAll(Empty, ItemsOf(data, "monthlyArchives"))
  IN [settings |-> IF given /\ sOk /\ data.settings.id = "main"
                   THEN data.settings ELSE NoSettings,
      fixedExpenses |-> IF sOk THEN Stripped(f.store) ELSE Empty,
      categories |-> IF sOk /\ f.ok THEN Stripped(c.store) ELSE Empty,
      expenses |-> IF sOk /\ f.ok /\ c.ok THEN Stripped(e.store) ELSE Empty,
      archives |-> IF sOk /\ f.ok /\ c.ok /\ e.ok THEN a.store ELSE Empty,
      ok |-> sOk /\ f.ok /\ c.ok /\ e.ok /\ a.ok]

AllStores == {"settings", "fixedExpenses", "categories", "expenses", "monthlyArchives"}

\* importData that takes a document without `data` as an empty backup
importDataUnvalidated(t, backup) ==
  LET call == [op |-> "importData", doc |-> backup,
               atCall |-> [durable |-> durable]]
  IN /\ tasks[t] = Idle
     /\ tx.owner = 0
     /\ tx' = [BeginTx(t, AllStores) EXCEPT
                 !.settings = NoSettings, !.fixedExpenses = Empty,
                 !.categories = Empty, !.expenses = Empty, !.archives = Empty]
     /\ SetTask(t, Merge(call, [pc |-> "im_put", data |-> Empty]))
     /\ UNCHANGED <<durable, nextId, clock, ticks>>

\* the call: the check of backup.data; then the transaction over all
\* stores is opened and every store is cleared.  atCall keeps, for the
\* properties, what the stores held when the call was made.
importData(t, backup) ==
  LET call == [op |-> "importData", doc |-> backup,
               atCall |-> [durable |-> durable]]
  IN /\ tasks[t] = Idle
     /\ IF "data" \notin DOMAIN backup
        THEN /\ SetTask(t, Merge(call, [pc |-> "failed"]))
             /\ tx' = tx
        ELSE /\ tx.owner = 0
             /\ tx' = [BeginTx(t, AllStores) EXCEPT
                         !.settings = NoSettings, !.fixedExpenses = Empty,
                         !.categories = Empty, !.expenses = Empty, !.archives = Empty]
             /\ SetTask(t, Merge(call, [pc |-> "im_put", data |-> backup.data]))
     /\ UNCHANGED <<durable, nextId, clock, ticks>>

\* the puts, store after store; a put that throws ends the function while
\* the transaction stays open with what was requested so far
ImportDataPut(t) ==
  /\ tasks[t].pc = "im_put"
  /\ tx.owner = t
  /\ LET view == Imported(tasks[t].data)
     IN /\ tx' = [tx EXCEPT !.settings = view.settings,
                            !.fixedExpenses = view.fixedExpenses,
                            !.categories = view.categories,
                            !.expenses = view.expenses,
                            !.archives = view.archives]
        /\ SetTask(t, [tasks[t] EXCEPT !.pc = IF view.ok THEN "im_commit" ELSE "im_thrown"])
  /\ UNCHANGED <<durable, nextId, clock, ticks>>

\* await tx.done
ImportDataCommit(t) ==
  /\ tasks[t].pc = "im_commit"
  /\ tx.owner = t
  /\ CommitTx
  /\ SetTask(t, [tasks[t] EXCEPT !.pc = "done"])
  /\ UNCHANGED <<nextId, clock, ticks>>

\* the exception left importData without tx.abort(): the transaction has
\* no request pending and commits what it holds
ImportDataAutoCommit(t) ==
  /\ tasks[t].pc = "im_thrown"
  /\ tx.owner = t
  /\ CommitTx
  /\ SetTask(t, [tasks[t] EXCEPT !.pc = "failed"])
  /\ UNCHANGED <<nextId, clock, ticks>>

\* ------------------------------------------------------ specifications
Step(t) ==
  \/ UpdateSettingsWrite(t)
  \/ UpdateExpenseWrite(t)
  \/ DeleteCategoryDelete(t)
  \/ DeleteCategoryCommit(t)
  \/ CloseMonthGather(t)
  \/ CloseMonthPut(t)
  \/ CloseMonthPurge(t)
  \/ CloseMonthCommit(t)
  \/ CloseMonthAfter(t)
  \/ Return(t)

ExpenseUpdates == [date : Dates] \cup [amount : UpdatedAmounts]

\* the ids a caller can name: those handed out so far, and one that no
\* record has
ExpenseIds == 1..nextId.expenses
CategoryIds == 1..nextId.categories

\* the calls of the ledger: categories, expenses, month close
LedgerCall(t) ==
  \/ \E i \in Incomes : updateSettings(t, [monthlyIncome |-> i])
  \/ \E a \in Amounts : createFixedExpense(a)
  \/ \E b \in BudgetLimits : createCategory(b)
  \/ \E c \in CategoryIds, a \in Amounts, d \in Dates \cup {NoDate} : createExpense(c, a, d)
  \/ \E id \in ExpenseIds, u \in ExpenseUpdates : updateExpense(t, id, u)
  \/ \E id \in ExpenseIds : deleteExpense(id)
  \/ \E id \in CategoryIds : deleteCategory(t, id)
  \/ \E m \in MonthKeys \cup {NoMonth} : closeMonth(t, m)

Called == calls < MaxCalls /\ calls' = calls + 1

\* one invocation at a time, months pass between the calls, and the
\* process may die at any step
Next ==
  \/ AllIdle /\ LedgerCall(1) /\ Called
  \/ Step(1) /\ UNCHANGED calls
  \/ AllIdle /\ Tick /\ UNCHANGED calls
  \/ Crash /\ UNCHANGED calls

Spec == Init /\ [][Next]_vars

\* invocations overlap at their awaits, within one calendar month
NextConc ==
  \/ \E t \in Tasks : LedgerCall(t) /\ Called
  \/ \E t \in Tasks : Step(t) /\ UNCHANGED calls

SpecConc == Init /\ [][NextConc]_vars

\* ------------------------------------------- the store and its backups
\* a backup file made by an earlier export: one record in every store
SampleBackup ==
  [version |-> 3,
   data |->
     [settings |-> [id |-> "main", monthlyIncome |-> 100, currency |-> "Q",
                    currentMonth |-> <<2024, 1, 2>>],
      fixedExpenses |-> <<[id |-> 101, amount |-> 10]>>,
      categories |-> <<[id |-> 101, budgetLimit |-> 20]>>,
      expenses |-> <<[id |-> 101, categoryId |-> 101, amount |-> 10,
                      date |-> <<2024, 1, 2, 15>>, month |-> <<2024, 1, 2>>]>>,
      monthlyArchives |->
        <<BuildArchive(<<2024, 1, 1>>,
                       [monthlyIncome |-> 100, currency |-> "Q"],
                       102 :> [amount |-> 10],
                       102 :> [budgetLimit |-> 20],
                       102 :> [categoryId |-> 102, amount |-> 10,
                               date |-> <<2024, 1, 1, 15>>,
                               month |-> <<2024, 1, 1>>])>>]]

\* files that JSON.parse accepts but no export wrote: no `data`, no
\* settings, a category without id
BackupWithoutData == [version |-> 3]
BackupWithoutSettings ==
  [SampleBackup EXCEPT !.data = StripSettings(@)]
BackupWithBadCategory ==
  [SampleBackup EXCEPT !.data.categories = <<[budgetLimit |-> 20]>>]

\* the files the user can pick: the ones above and the export of the store
\* as it is
Backups ==
  {SampleBackup, BackupWithoutData, BackupWithoutSettings, BackupWithBadCategory,
   ExportDoc(settings, fixedExpenses, categories, expenses, archives)}

ExpensePatches ==
  ExpenseUpdates \cup [month : MonthKeys] \cup [date : Dates, month : MonthKeys]
FixedExpensePatches == [amount : UpdatedAmounts]
CategoryPatches == [budgetLimit : UpdatedLimits]

\* the ids a caller can name: those of the records, and one no record has
FixedIdsNamed == DOMAIN fixedExpenses \cup {nextId.fixedExpenses}
CategoryIdsNamed == DOMAIN categories \cup {nextId.categories}
ExpenseIdsNamed == DOMAIN expenses \cup {nextId.expenses}

\* every call of the store
StoreCall(t) ==
  \/ \E a \in Amounts : createFixedExpense(a)
  \/ \E id \in FixedIdsNamed, u \in FixedExpensePatches : updateFixedExpense(t, id, u)
  \/ \E id \in FixedIdsNamed : deleteFixedExpense(id)
  \/ \E b \in BudgetLimits : createCategory(b)
  \/ \E id \in CategoryIdsNamed, u \in CategoryPatches : updateCategory(t, id, u)
  \/ \E id \in CategoryIdsNamed : deleteCategory(t, id)
  \/ \E c \in CategoryIdsNamed, a \in Amounts, d \in Dates \cup {NoDate} : createExpense(c, a, d)
  \/ \E id \in ExpenseIdsNamed, u \in ExpensePatches : updateExpense(t, id, u)
  \/ \E id \in ExpenseIdsNamed : deleteExpense(id)
  \/ closeMonth(t, NoMonth)
  \/ \E m \in DOMAIN archives \cup MonthKeys : deleteArchive(m)
  \/ exportData(t)
  \/ \E b \in Backups : importData(t, b)

StoreStep(t) ==
  \/ Step(t)
  \/ UpdateFixedExpenseWrite(t)
  \/ UpdateCategoryWrite(t)
  \/ ImportDataPut(t)
  \/ ImportDataCommit(t)
  \/ ImportDataAutoCommit(t)

\* one invocation at a time over the whole store, within one calendar
\* month; the process may die at any step and the page may be loaded again
NextStore ==
  \/ AllIdle /\ StoreCall(1) /\ Called
  \/ StoreStep(1) /\ UNCHANGED calls
  \/ Crash /\ UNCHANGED calls
  \/ Reopen /\ UNCHANGED calls

SpecStore == Init /\ [][NextStore]_vars

\* --------------------------------------------------- aggregation engine
\* a percentage that is not clamped
calculatePercentageUnclamped(value, total) ==
  IF total <= 0 THEN 0 ELSE (value * 100) \div total

\* helpers.js calculatePercentage: Math.min(100, Math.max(0, value / total * 100))
\* (the input sets keep the quotient integral)
calculatePercentage(value, total) ==
  IF total <= 0 THEN 0
  ELSE LET percentage == (value * 100) \div total
       IN IF percentage > 100 THEN 100
          ELSE IF percentage < 0 THEN 0 ELSE percentage

\* the four reads of getBudgetOverview and the figures it derives; the
\* function declares no parameter, so getExpensesForMonth() is called
\* without a month
BudgetOverview ==
  LET exps == ByMonth(expenses, TargetMonth(NoMonth))
      monthlyIncome == IncomeOf(settings)
      totalFixedExpenses == SumOver(fixedExpenses, "amount")
      totalBudgeted == SumOver(categories, "budgetLimit")
      totalSpent == SumOver(exps, "amount")
      availableForBudget == monthlyIncome - totalFixedExpenses
  IN [monthlyIncome |-> monthlyIncome,
      totalFixedExpenses |-> totalFixedExpenses,
      totalBudgeted |-> totalBudgeted,
      totalSpent |-> totalSpent,
      availableForBudget |-> availableForBudget,
      remainingBudget |-> totalBudgeted - totalSpent,
      unassigned |-> availableForBudget - totalBudgeted,
      realAvailable |-> monthlyIncome - totalFixedExpenses - totalSpent,
      fixedExpensesPercent |-> calculatePercentage(totalFixedExpenses, monthlyIncome),
      budgetedPercent |-> calculatePercentage(totalBudgeted, availableForBudget),
      spentPercent |-> calculatePercentage(totalSpent, totalBudgeted)]

\* spent, remaining and percentage of one category over the expenses given
WithSpending(category, categoryExpenses) ==
  LET spent == SumOver(categoryExpenses, "amount")
  IN [budgetLimit |-> category.budgetLimit,
      spent |-> spent,
      remaining |-> category.budgetLimit - spent,
      percentage |-> calculatePercentage(spent, category.budgetLimit),
      expenseCount |-> Cardinality(DOMAIN categoryExpenses)]

\* getAllCategoriesWithSpending: getExpensesForMonth() grouped by categoryId
AllCategoriesWithSpending ==
  LET exps == ByMonth(expenses, TargetMonth(NoMonth))
  IN [c \in DOMAIN categories |-> WithSpending(categories[c], ByCategory(exps, c))]

\* getCategoryWithSpending: getCategory(id) and getExpensesByCategory(id);
\* null when there is no such category
NoCategory == <<>>
CategoryWithSpending(categoryId) ==
  IF categoryId \notin DOMAIN categories THEN NoCategory
  ELSE categoryId :> WithSpending(categories[categoryId],
         ByCategory(ByMonth(expenses, TargetMonth(NoMonth)), categoryId))

\* getCategoryDistribution: filter(c => c.spent > 0), value and percentage
CategoryDistribution ==
  LET all == AllCategoriesWithSpending
  IN [c \in {x \in DOMAIN all : all[x].spent > 0} |->
        [value |-> all[c].spent, percentage |-> all[c].percentage]]

\* getBudgetVsActual: budget and actual
BudgetVsActual ==
  LET all == AllCategoriesWithSpending
  IN [c \in DOMAIN all |-> [budget |-> all[c].budgetLimit, actual |-> all[c].spent]]

\* a call of an aggregation function with the arguments the caller wrote
\* (the dashboard passes its viewMonth); the reads are gathered by
\* Promise.all and the result goes to the caller
Aggregate(t, op, month, categoryId, result) ==
  /\ tasks[t] = Idle
  /\ Free("settings") /\ Free("fixedExpenses") /\ Free("categories") /\ Free("expenses")
  /\ SetTask(t, [pc |-> "done", op |-> op, month |-> month,
                 categoryId |-> categoryId, result |-> result])
  /\ UNCHANGED <<durable, nextId, clock, ticks, tx>>

getBudgetOverview(t, month) ==
  Aggregate(t, "getBudgetOverview", month, 0, BudgetOverview)
getAllCategoriesWithSpending(t, month) ==
  Aggregate(t, "getAllCategoriesWithSpending", month, 0, AllCategoriesWithSpending)
getCategoryWithSpending(t, categoryId) ==
  Aggregate(t, "getCategoryWithSpending", NoMonth, categoryId,
            CategoryWithSpending(categoryId))
getCategoryDistribution(t) ==
  Aggregate(t, "getCategoryDistribution", NoMonth, 0, CategoryDistribution)
getBudgetVsActual(t) ==
  Aggregate(t, "getBudgetVsActual", NoMonth, 0, BudgetVsActual)

\* ------------------------------------------------- the forms of the views
\* validateForm, rule {type: 'number', min}: the value passes
validateForm(value, min) == value >= min

\* handleError: the submit ends without a call to the store
Rejected == UNCHANGED <<durable, nextId, clock, ticks, tx, tasks>>

\* what the user types into the amount fields
TypedIncomes == {100, -50}
TypedAmounts == {10, 30, -50}
TypedLimits == {0, 20, -50}

\* the debounced save of the income input: parseFloat(value) || 0 goes to
\* updateSettings as it is
saveIncome(t, value) == updateSettings(t, [monthlyIncome |-> value])

\* openAddFixedModal onSubmit: amount with min 0
submitFixedExpense(amount) ==
  IF validateForm(amount, 0) THEN createFixedExpense(amount) ELSE Rejected

\* the category form onSubmit: budgetLimit with min 0
submitCategory(budgetLimit) ==
  IF validateForm(budgetLimit, 0) THEN createCategory(budgetLimit) ELSE Rejected

\* the expense form onSubmit: amount with min 0.01, in hundredths
submitExpense(categoryId, amount, date) ==
  IF validateForm(amount * 100, 1) THEN createExpense(categoryId, amount, date)
  ELSE Rejected

\* the submits of the forms
BudgetCall(t) ==
  \/ \E v \in TypedIncomes : saveIncome(t, v)
  \/ \E a \in TypedAmounts : submitFixedExpense(a)
  \/ \E b \in TypedLimits : submitCategory(b)
  \/ \E c \in DOMAIN categories, a \in TypedAmounts, d \in Dates : submitExpense(c, a, d)

\* the reads of the views
View(t) ==
  \/ \E m \in MonthKeys \cup {NoMonth} : getBudgetOverview(t, m)
  \/ \E m \in MonthKeys \cup {NoMonth} : getAllCategoriesWithSpending(t, m)
  \/ \E c \in CategoryIdsNamed : getCategoryWithSpending(t, c)
  \/ getCategoryDistribution(t)
  \/ getBudgetVsActual(t)

\* the budget views: forms are submitted and figures are read, one
\* invocation at a time, while months pass
NextBudget ==
  \/ AllIdle /\ BudgetCall(1) /\ Called
  \/ View(1) /\ UNCHANGED calls
  \/ UpdateSettingsWrite(1) /\ UNCHANGED calls
  \/ Return(1) /\ UNCHANGED calls
  \/ AllIdle /\ Tick /\ UNCHANGED calls

SpecBudget == Init /\ [][NextBudget]_vars

\* ============================================================ claims
InFlight(t, op) == tasks[t].pc # "idle" /\ tasks[t].op = op
Moved(t) == tasks'[t] # tasks[t]
\* closeMonth has committed its transaction
Closed(t) == InFlight(t, "closeMonth") /\ tasks[t].pc \in {"cm_after", "us_write", "done"}
\* closeMonth has returned its archive
Succeeded(t) == InFlight(t, "closeMonth") /\ tasks[t].pc = "done"

\* the month after a YYYY-MM key, by the calendar
CalendarSuccessor(key) ==
  IF MonthNum(key) = 12
  THEN <<key[1] + 1, 0, 1>>
  ELSE <<key[1], (MonthNum(key) + 1) \div 10, (MonthNum(key) + 1) % 10>>

\* C1: once closeMonth(m) has committed, no live expense has month m and
\* the archive of m holds exactly the expenses that had month m when the
\* call was made, field for field.
C1_CloseMovesExpensesToArchive ==
  \A t \in Tasks :
    Closed(t) =>
      /\ DOMAIN ByMonth(expenses, tasks[t].targetMonth) = {}
      /\ tasks[t].targetMonth \in DOMAIN archives
      /\ archives[tasks[t].targetMonth].expenses = tasks[t].atCall.expenses

C1_Witness ==
  \E t \in Tasks : Succeeded(t) /\ DOMAIN tasks[t].atCall.expenses # {}

\* C2: a closeMonth(m) made while an archive of m exists fails, and the call
\* changes none of the five stores.
C2_SecondCloseFailsUnchanged ==
  [][\A t \in Tasks :
       (/\ tasks[t].pc = "idle"
        /\ InFlight(t, "closeMonth")'
        /\ tasks'[t].targetMonth \in DOMAIN archives)
       => (tasks'[t].pc = "failed" /\ durable' = durable)]_vars

C2_Witness ==
  \E t \in Tasks :
    /\ InFlight(t, "closeMonth") /\ tasks[t].pc = "failed"
    /\ DOMAIN archives[tasks[t].targetMonth].expenses # {}

\* C3: the archive write and the expense purge of closeMonth(m) commit as
\* one unit: no step brings the archive of m into the store while an
\* expense it captured is still live in month m, and no step of closeMonth
\* removes an expense of month m from the store without the archive of m
\* being in the store.
C3_ArchiveAndPurgeCommitTogether ==
  [][/\ \A m \in DOMAIN archives' \ DOMAIN archives :
          \A i \in DOMAIN archives'[m].expenses :
            ~(i \in DOMAIN expenses' /\ expenses'[i].month = m)
     /\ \A t \in Tasks :
          (/\ InFlight(t, "closeMonth") /\ Moved(t)
           /\ DOMAIN ByMonth(expenses, tasks[t].targetMonth)
                # DOMAIN ByMonth(expenses', tasks[t].targetMonth))
          => tasks[t].targetMonth \in DOMAIN archives']_vars

C3_Witness ==
  /\ AllIdle
  /\ tx = NoTx
  /\ \E m \in DOMAIN archives : DOMAIN archives[m].expenses # {}

\* C4: when closeMonth of the month in Settings.currentMonth ends, by
\* returning or by the process dying at any step, the store holds either no
\* archive of the month and the old currentMonth, or the archive and the
\* advanced currentMonth.
C4_CloseAndAdvanceAllOrNothing ==
  [][\A t \in Tasks :
       (/\ InFlight(t, "closeMonth") /\ tasks[t].pc # "failed"
        /\ tasks'[t] = Idle
        /\ tasks[t].atCall.settings.currentMonth = tasks[t].targetMonth)
       => \/ /\ tasks[t].targetMonth \notin DOMAIN archives'
             /\ expenses' = expenses
             /\ settings'.currentMonth = tasks[t].targetMonth
          \/ /\ tasks[t].targetMonth \in DOMAIN archives'
             /\ DOMAIN ByMonth(expenses', tasks[t].targetMonth) = {}
             /\ settings'.currentMonth = CalendarSuccessor(tasks[t].targetMonth)]_vars

\* C5: no step of closeMonth deletes an expense that is not in the expenses
\* list of the archive it wrote, whatever createExpense or updateExpense
\* did between its read and its purge.
C5_PurgedExpensesAreArchived ==
  [][\A t \in Tasks :
       (InFlight(t, "closeMonth") /\ Moved(t))
       => \A i \in DOMAIN expenses \ DOMAIN expenses' :
            /\ tasks[t].targetMonth \in DOMAIN archives'
            /\ i \in DOMAIN archives'[tasks[t].targetMonth].expenses]_vars

\* C6: no step of closeMonth replaces an archive that is in the store, so
\* of two overlapping closeMonth(m) at most one writes the archive of m.
C6_ArchiveNeverReplaced ==
  [][\A t \in Tasks :
       (InFlight(t, "closeMonth") /\ Moved(t))
       => \A m \in DOMAIN archives :
            m \in DOMAIN archives' /\ archives'[m] = archives[m]]_vars

\* C7: when closeMonth returns its archive for the month that
\* Settings.currentMonth named at the call, Settings.currentMonth is the
\* next calendar month.
C7_ClosingCurrentMonthAdvances ==
  \A t \in Tasks :
    (Succeeded(t) /\ tasks[t].targetMonth = tasks[t].atCall.settings.currentMonth)
    => settings.currentMonth = CalendarSuccessor(tasks[t].targetMonth)

\* C8: when closeMonth returns its archive for a month other than the one
\* Settings.currentMonth named at the call, the Settings record is as it was
\* at the call.
C8_ClosingOtherMonthKeepsSettings ==
  \A t \in Tasks :
    (Succeeded(t) /\ tasks[t].targetMonth # tasks[t].atCall.settings.currentMonth)
    => settings = tasks[t].atCall.settings

\* C9: closeMonth() without a month targets the month Settings.currentMonth
\* names at the call.
C9_DefaultTargetIsSettingsMonth ==
  \A t \in Tasks :
    (InFlight(t, "closeMonth") /\ tasks[t].month = NoMonth)
    => tasks[t].targetMonth = tasks[t].atCall.settings.currentMonth

\* C10: deleteCategory(id) removes the category and its expenses of every
\* month as one unit: no step takes a category out of the store while an
\* expense of it stays, and no step of deleteCategory takes an expense out
\* of the store while the category stays.
C10_CascadeCommitsTogether ==
  [][/\ \A c \in DOMAIN categories \ DOMAIN categories' :
          \A i \in DOMAIN expenses' : expenses'[i].categoryId # c
     /\ \A t \in Tasks :
          (/\ InFlight(t, "deleteCategory") /\ Moved(t)
           /\ DOMAIN expenses' # DOMAIN expenses)
          => tasks[t].id \notin DOMAIN categories']_vars

C10_Witness ==
  \E t \in Tasks :
    /\ InFlight(t, "deleteCategory") /\ tasks[t].pc = "done"
    /\ tasks[t].atCall.exists
    /\ tasks[t].id \notin DOMAIN categories
    /\ \E i, j \in DOMAIN tasks[t].purged :
         tasks[t].purged[i].month # tasks[t].purged[j].month

\* C11: every live expense's categoryId is the id of a category in the
\* store.
C11_ExpensesReferToLiveCategory ==
  \A i \in DOMAIN expenses : expenses[i].categoryId \in DOMAIN categories

\* C12: every expense record has month equal to the first seven characters
\* of its date (year, '-', two characters), after createExpense with or
\* without a date and after updateExpense with a patch of date, month or
\* both.
C12_MonthIsPrefixOfDate ==
  \A i \in DOMAIN expenses : expenses[i].month = SubSeq(expenses[i].date, 1, 3)

C12_Witness ==
  \E t \in Tasks :
    /\ InFlight(t, "updateExpense") /\ tasks[t].pc = "done"
    /\ "month" \in DOMAIN tasks[t].updates
    /\ tasks[t].id \in DOMAIN expenses
    /\ tasks[t].updates.month # expenses[tasks[t].id].month

\* C13: deleteFixedExpense, deleteExpense and deleteCategory with an id that
\* has no record do not fail and change none of the stores.
C13_DeleteOfAbsentIdChangesNothing ==
  [][/\ \A id \in FixedIdsNamed :
          (id \notin DOMAIN fixedExpenses /\ deleteFixedExpense(id))
          => durable' = durable
     /\ \A id \in ExpenseIdsNamed :
          (id \notin DOMAIN expenses /\ deleteExpense(id))
          => durable' = durable
     /\ \A t \in Tasks :
          (/\ InFlight(t, "deleteCategory") /\ Moved(t)
           /\ ~tasks[t].atCall.exists)
          => (durable' = durable /\ tasks'[t].pc # "failed")]_vars

UpdateOps == {"updateFixedExpense", "updateCategory", "updateExpense"}

\* the store an update reads its record from
StoreOf(op) ==
  CASE op = "updateFixedExpense" -> fixedExpenses
    [] op = "updateCategory" -> categories
    [] op = "updateExpense" -> expenses

\* C14: updateFixedExpense, updateCategory and updateExpense called with an
\* id that has no record fail, and neither the call nor anything up to its
\* return changes a store.
C14_UpdateOfAbsentIdFails ==
  [][\A t \in Tasks :
       /\ (/\ tasks[t].pc = "idle" /\ tasks'[t].pc # "idle"
           /\ tasks'[t].op \in UpdateOps
           /\ tasks'[t].id \notin DOMAIN StoreOf(tasks'[t].op))
          => (tasks'[t].pc = "failed" /\ durable' = durable)
       /\ (/\ tasks[t].pc = "failed" /\ tasks[t].op \in UpdateOps /\ Moved(t))
          => durable' = durable]_vars

C14_Witness ==
  \E t \in Tasks :
    /\ InFlight(t, "updateCategory") /\ tasks[t].pc = "failed"
    /\ DOMAIN categories # {}
    /\ tasks[t].id \notin DOMAIN categories

\* C15: clearing the stores and importing the document that exportData
\* builds from them gives back the same settings, fixed expenses,
\* categories, expenses of all months and archives.
C15_ExportImportRoundTrip ==
  LET doc == ExportDoc(settings, fixedExpenses, categories, expenses, archives)
      view == Imported(doc.data)
  IN /\ view.ok
     /\ view.settings = settings
     /\ view.fixedExpenses = fixedExpenses
     /\ view.categories = categories
     /\ view.expenses = expenses
     /\ view.archives = archives

C15_Witness ==
  \E t \in Tasks :
    /\ InFlight(t, "importData") /\ tasks[t].pc = "done"
    /\ tasks[t].doc = ExportDoc(settings, fixedExpenses, categories, expenses, archives)
    /\ HasSettings
    /\ DOMAIN fixedExpenses # {} /\ DOMAIN categories # {}
    /\ \E i, j \in DOMAIN expenses : expenses[i].month # expenses[j].month
    /\ DOMAIN archives # {}

\* C16: when importData ends without success, by failing or by the process
\* dying at any step, every store holds what it held when the call was made.
C16_ImportAllOrNothing ==
  [][\A t \in Tasks :
       (/\ InFlight(t, "importData") /\ tasks[t].pc # "done"
        /\ tasks'[t] = Idle)
       => durable' = tasks[t].atCall.durable]_vars

\* C17: importData of a document without `data` fails, opens no transaction
\* and leaves every store as it was at the call.
C17_ImportWithoutDataRejected ==
  \A t \in Tasks :
    (InFlight(t, "importData") /\ "data" \notin DOMAIN tasks[t].doc)
    => /\ tasks[t].pc = "failed"
       /\ tx.owner # t
       /\ durable = tasks[t].atCall.durable

C17_Witness ==
  \E t \in Tasks :
    /\ InFlight(t, "importData") /\ "data" \notin DOMAIN tasks[t].doc
    /\ tasks[t].pc = "failed"
    /\ DOMAIN expenses # {} /\ DOMAIN archives # {}

\* C18: the settings record 'main' exists in every reachable state.
C18_SettingsAlwaysExist ==
  "id" \in DOMAIN settings /\ settings.id = "main"

\* C19: no step changes or removes an archive that is in the store (the
\* calls here are those of the ledger: neither deleteArchive nor importData).
C19_ArchiveImmutable ==
  [][\A m \in DOMAIN archives :
       m \in DOMAIN archives' /\ archives'[m] = archives[m]]_vars

\* C20: in the archive closeMonth wrote, totalFixedExpenses, totalBudgeted
\* and totalSpent are the sums over the archived fixed expenses, categories
\* and expenses, and totalSaved is the monthly income of Settings at the
\* close less totalFixedExpenses and totalSpent.
C20_SummaryTotals ==
  \A t \in Tasks :
    Closed(t) =>
      LET a == archives[tasks[t].targetMonth]
          income == tasks[t].atCall.settings.monthlyIncome
      IN /\ a.summary.totalFixedExpenses = SumOver(a.fixedExpenses, "amount")
         /\ a.summary.totalBudgeted = SumOver(a.categories, "budgetLimit")
         /\ a.summary.totalSpent = SumOver(a.expenses, "amount")
         /\ a.summary.totalSaved
              = income - a.summary.totalFixedExpenses - a.summary.totalSpent

C20_Witness ==
  \E t \in Tasks :
    /\ Succeeded(t)
    /\ archives[tasks[t].targetMonth].summary.monthlyIncome > 0
    /\ archives[tasks[t].targetMonth].summary.totalFixedExpenses > 0
    /\ archives[tasks[t].targetMonth].summary.totalSpent > 0

\* the target month as the claims define it: the month the caller passed
\* or, when none was passed, Settings.currentMonth
ClaimedTarget(month) == IF month = NoMonth THEN settings.currentMonth ELSE month

\* the amounts spent in month m, in all categories and in category c
SpentIn(m) == SumOver(ByMonth(expenses, m), "amount")
SpentOn(c, m) == SumOver(ByCategory(ByMonth(expenses, m), c), "amount")

\* C21: getBudgetOverview returns availableForBudget = I - F, unassigned =
\* I - F - B and realAvailable = I - F - S, with I the monthly income of
\* Settings, F the sum of the fixed expense amounts, B the sum of the
\* budget limits and S the sum of the amounts of the target month's
\* expenses.
C21_OverviewFigures ==
  \A t \in Tasks :
    InFlight(t, "getBudgetOverview") =>
      LET r == tasks[t].result
          I == settings.monthlyIncome
          F == SumOver(fixedExpenses, "amount")
          B == SumOver(categories, "budgetLimit")
          S == SpentIn(ClaimedTarget(tasks[t].month))
      IN /\ r.availableForBudget = I - F
         /\ r.unassigned = I - F - B
         /\ r.realAvailable = I - F - S

\* C22: every aggregation function takes its spending figures from exactly
\* the expenses of its target month: the month passed or, when none is
\* passed, Settings.currentMonth.
C22_AggregatesUseTargetMonth ==
  \A t \in Tasks :
    LET m == ClaimedTarget(tasks[t].month)
        r == tasks[t].result
    IN /\ InFlight(t, "getBudgetOverview") => r.totalSpent = SpentIn(m)
       /\ (InFlight(t, "getAllCategoriesWithSpending")
           \/ InFlight(t, "getCategoryWithSpending"))
          => \A c \in DOMAIN r : r[c].spent = SpentOn(c, m)
       /\ InFlight(t, "getCategoryDistribution")
          => /\ DOMAIN r = {c \in DOMAIN categories : SpentOn(c, m) > 0}
             /\ \A c \in DOMAIN r : r[c].value = SpentOn(c, m)
       /\ InFlight(t, "getBudgetVsActual")
          => \A c \in DOMAIN r : r[c].actual = SpentOn(c, m)

\* C23: the percentage that getAllCategoriesWithSpending and
\* getCategoryWithSpending report for a category lies in 0..100: it is 0
\* when budgetLimit <= 0, 100 when spent >= budgetLimit > 0, and
\* spent / budgetLimit * 100 otherwise.
C23_PercentageClamped ==
  \A t \in Tasks :
    (InFlight(t, "getAllCategoriesWithSpending")
     \/ InFlight(t, "getCategoryWithSpending"))
    => \A c \in DOMAIN tasks[t].result :
         LET x == tasks[t].result[c]
         IN /\ x.percentage \in 0..100
            /\ x.budgetLimit <= 0 => x.percentage = 0
            /\ (x.budgetLimit > 0 /\ x.spent >= x.budgetLimit) => x.percentage = 100
            /\ (x.budgetLimit > 0 /\ x.spent < x.budgetLimit)
               => x.percentage * x.budgetLimit = x.spent * 100

C23_Witness ==
  \E t \in Tasks :
    /\ InFlight(t, "getAllCategoriesWithSpending")
    /\ \E c \in DOMAIN tasks[t].result :
         tasks[t].result[c].budgetLimit = 0 /\ tasks[t].result[c].spent > 0
    /\ \E c \in DOMAIN tasks[t].result :
         /\ tasks[t].result[c].budgetLimit > 0
         /\ tasks[t].result[c].spent > tasks[t].result[c].budgetLimit

\* C24: every persisted amount is >= 0: Settings.monthlyIncome, the amount
\* of every fixed expense, the budgetLimit of every category and the amount
\* of every expense.
C24_PersistedAmountsNonNegative ==
  /\ settings.monthlyIncome >= 0
  /\ \A i \in DOMAIN fixedExpenses : fixedExpenses[i].amount >= 0
  /\ \A i \in DOMAIN categories : categories[i].budgetLimit >= 0
  /\ \A i \in DOMAIN expenses : expenses[i].amount >= 0

\* C25: every category snapshot of an archive has a percentage in 0..100,
\* the one the clamped formula of the aggregation engine gives for the
\* snapshot's spent and budgetLimit.
C25_SnapshotPercentageClamped ==
  \A m \in DOMAIN archives :
    \A c \in DOMAIN archives[m].categories :
      LET x == archives[m].categories[c]
      IN /\ x.percentage \in 0..100
         /\ x.percentage = calculatePercentage(x.spent, x.budgetLimit)

\* C26: the write of an update does not create a record: when the record
\* it read is no longer in the store, it is not in the store afterwards.
C26_UpdateDoesNotRecreate ==
  [][\A t \in Tasks :
       /\ (tasks[t].pc = "ue_write" /\ Moved(t) /\ tasks[t].id \notin DOMAIN expenses)
          => tasks[t].id \notin DOMAIN expenses'
       /\ (tasks[t].pc = "uc_write" /\ Moved(t) /\ tasks[t].id \notin DOMAIN categories)
          => tasks[t].id \notin DOMAIN categories'
       /\ (tasks[t].pc = "uf_write" /\ Moved(t) /\ tasks[t].id \notin DOMAIN fixedExpenses)
          => tasks[t].id \notin DOMAIN fixedExpenses']_vars

\* C27: no step of closeMonth(m) changes a fixed expense, a category, an
\* expense of a month other than m or an archive of a month other than m.
C27_CloseMonthFrame ==
  [][\A t \in Tasks :
       (InFlight(t, "closeMonth") /\ Moved(t))
       => LET m == tasks[t].targetMonth
          IN /\ fixedExpenses' = fixedExpenses
             /\ categories' = categories
             /\ Without(expenses', DOMAIN ByMonth(expenses', m))
                  = Without(expenses, DOMAIN ByMonth(expenses, m))
             /\ Without(archives', {m}) = Without(archives, {m})]_vars

C27_Witness ==
  \E t \in Tasks :
    /\ Succeeded(t)
    /\ DOMAIN tasks[t].atCall.expenses # {}
    /\ \E i \in DOMAIN expenses : expenses[i].month # tasks[t].targetMonth
    /\ DOMAIN archives # {tasks[t].targetMonth}

\* C28: no live expense has the month of an archive.
C28_ClosedMonthHasNoExpenses ==
  \A m \in DOMAIN archives : DOMAIN ByMonth(expenses, m) = {}

\* C29: whenever no call is in flight, Settings.currentMonth names a month
\* without an archive.
C29_CurrentMonthIsOpen ==
  AllIdle => settings.currentMonth \notin DOMAIN archives

\* C30: the write of updateSettings changes the fields of its own patch
\* only, so the fields another call patched in the meantime keep their
\* values.
C30_SettingsPatchesBothApply ==
  [][\A t \in Tasks :
       (tasks[t].pc = "us_write" /\ Moved(t))
       => \A f \in DOMAIN settings \ DOMAIN tasks[t].patch :
            f \in DOMAIN settings' /\ settings'[f] = settings[f]]_vars

====
